---------------------------- MODULE Spec2Model ----------------------------
(***************************************************************************)
(* claude_commit: generate a git commit message from the staged diff.      *)
(*                                                                         *)
(* The repository holds two pipelines.  The binary (src/main.rs) defines   *)
(* its own load_config, get_git_diff, generate_message, build_prompt,      *)
(* write_commit_message and run_git_commit.  The library (src/lib.rs and   *)
(* its modules config, git, claude, validation, output) defines a second   *)
(* set under the same names.  A run is main()'s sequence of calls; the     *)
(* variable `variant` says which set of functions the calls resolve to.    *)
(*                                                                         *)
(* Texts are run-length encoded: a text is a sequence of runs [c, n], the  *)
(* character c repeated n >= 1 times, adjacent runs holding different      *)
(* characters.  The encoding is canonical, so equality of encodings is     *)
(* equality of texts, and a text of 1,000,000 bytes is one run.            *)
(***************************************************************************)
EXTENDS Integers, Sequences, FiniteSets, TLC

VARIABLES
    variant,    \* "bin": the functions of main.rs; "lib": those of the library
    json,       \* Args.json
    file,       \* the config file named by Args.config, as the file system holds it
    pc,         \* the call main() makes next, or "exit"
    config,     \* the loaded Config
    diff,       \* main's `diff`
    message,    \* main's `message`
    trace,      \* history: the calls and external effects of the run, in order
    out,        \* what the run printed on standard output, in order
    staging,    \* content of .git/COMMIT_MSG_GENERATED
    msg_file,   \* main's `msg_file`
    exit,       \* how the process ended: [how, code, error]
    pin,        \* inputs of a direct call of a library function
    pcall       \* the last direct call of a library function and what it returned

vars == <<variant, json, file, pc, config, diff, message, trace, out, staging, msg_file, exit,
          pin, pcall>>

runVars == <<variant, json, file, pc, config, diff, message, trace, out, staging, msg_file, exit>>

pureVars == <<pin, pcall>>

-----------------------------------------------------------------------------
(* Bounds of the model. *)

\* Longest template of a direct call, in runs.
MaxRuns == 2

\* Largest of the small ceilings a direct call of prompt::build_prompt is given.
MaxCeiling == 4

-----------------------------------------------------------------------------
(* Program constants. *)

MAX_PROMPT_SIZE == 1000000

SEPARATOR_SIZE == 2

DEFAULT_MAX_PROMPT_SIZE == 1000000

default_max_prompt_size == 1000000

-----------------------------------------------------------------------------
(* Texts. *)

\* "a": an ASCII letter; "sp", "nl": space and line feed (White_Space);
\* "emoji": a character of four UTF-8 bytes; "fffd": U+FFFD, three bytes;
\* "bad": a byte that is not UTF-8 (0xFF), found only in raw process output.
Utf8Width(c) ==
    CASE c = "emoji" -> 4
      [] c = "fffd"  -> 3
      [] OTHER       -> 1

IsWhitespace(c) == c \in {"sp", "nl"}

Empty == << >>

Rep(c, n) == IF n = 0 THEN Empty ELSE <<[c |-> c, n |-> n]>>

\* s followed by t (String concatenation, as format! and push_str do it).
Concat(s, t) ==
    IF s = Empty THEN t
    ELSE IF t = Empty THEN s
    ELSE IF s[Len(s)].c = t[1].c
         THEN SubSeq(s, 1, Len(s) - 1)
              \o <<[c |-> t[1].c, n |-> s[Len(s)].n + t[1].n]>>
              \o Tail(t)
         ELSE s \o t

RECURSIVE SumBytes(_)
SumBytes(s) ==
    IF s = Empty THEN 0 ELSE Utf8Width(s[1].c) * s[1].n + SumBytes(Tail(s))

\* str::len(): the length in bytes of the UTF-8 encoding.
ByteLen(s) == SumBytes(s)

RECURSIVE SumChars(_)
SumChars(s) == IF s = Empty THEN 0 ELSE s[1].n + SumChars(Tail(s))

\* str::chars().count()
CharCount(s) == SumChars(s)

RECURSIVE TrimStart(_)
TrimStart(s) ==
    IF s # Empty /\ IsWhitespace(s[1].c) THEN TrimStart(Tail(s)) ELSE s

RECURSIVE TrimEnd(_)
TrimEnd(s) ==
    IF s # Empty /\ IsWhitespace(s[Len(s)].c)
    THEN TrimEnd(SubSeq(s, 1, Len(s) - 1))
    ELSE s

\* str::trim(): leading and trailing White_Space removed.
Trim(s) == TrimEnd(TrimStart(s))

RECURSIVE Lossy(_)
Lossy(raw) ==
    IF raw = Empty THEN Empty
    ELSE Concat(Rep(IF raw[1].c = "bad" THEN "fffd" ELSE raw[1].c, raw[1].n),
                Lossy(Tail(raw)))

\* String::from_utf8_lossy(bytes): each byte that is not UTF-8 becomes U+FFFD.
from_utf8_lossy(raw) == Lossy(raw)


-----------------------------------------------------------------------------
(* Results and error messages. *)

Ok(v) == [tag |-> "Ok", val |-> v]

Err(e) == [tag |-> "Err", err |-> e]

\* A panic (Option/Result::expect on a failure): the process aborts with status 101.
Panic(e) == [tag |-> "Panic", err |-> e]

Unit == "()"

RECURSIVE Digits(_)
\* Display of a usize: its decimal digits, most significant first.
Digits(n) == IF n < 10 THEN <<n>> ELSE Digits(n \div 10) \o <<n % 10>>

\* An error message: the format string and the rendered arguments, in order.
Msg(fmt, args) == [fmt |-> fmt, args |-> args]

SizeExceededFmt ==
    "Prompt size ({} bytes) exceeds maximum allowed size ({} bytes). Consider reducing the size of staged changes or splitting into multiple commits."

-----------------------------------------------------------------------------
(* validation.rs *)

validate_prompt_size_ge(prompt_template, diff_) ==
    LET total_size == ByteLen(prompt_template) + SEPARATOR_SIZE + ByteLen(diff_)
    IN  IF total_size >= MAX_PROMPT_SIZE
        THEN Err(Msg(SizeExceededFmt, <<Digits(total_size), Digits(MAX_PROMPT_SIZE)>>))
        ELSE Ok(Unit)

validate_prompt_size(prompt_template, diff_) ==
    LET total_size == ByteLen(prompt_template) + SEPARATOR_SIZE + ByteLen(diff_)
    IN  IF total_size > MAX_PROMPT_SIZE
        THEN Err(Msg(SizeExceededFmt, <<Digits(total_size), Digits(MAX_PROMPT_SIZE)>>))
        ELSE Ok(Unit)

\* The size counted in characters (chars().count()) instead of bytes.
calculate_prompt_size_chars(prompt_template, diff_) ==
    CharCount(prompt_template) + SEPARATOR_SIZE + CharCount(diff_)

calculate_prompt_size(prompt_template, diff_) ==
    ByteLen(prompt_template) + SEPARATOR_SIZE + ByteLen(diff_)

-----------------------------------------------------------------------------
(* prompt.rs *)

prompt_build_prompt_ge(diff_, prompt_template, max_size) ==
    LET combined_size == ByteLen(prompt_template) + 2 + ByteLen(diff_)
    IN  IF combined_size >= max_size
        THEN Err(Msg(SizeExceededFmt, <<Digits(combined_size), Digits(max_size)>>))
        ELSE Ok(Concat(Concat(prompt_template, Rep("nl", 2)), diff_))

prompt_build_prompt_swapped(diff_, prompt_template, max_size) ==
    LET combined_size == ByteLen(prompt_template) + 2 + ByteLen(diff_)
    IN  IF combined_size > max_size
        THEN Err(Msg(SizeExceededFmt, <<Digits(max_size), Digits(combined_size)>>))
        ELSE Ok(Concat(Concat(prompt_template, Rep("nl", 2)), diff_))

\* The separator left out of the size that is compared.
prompt_build_prompt_no_separator(diff_, prompt_template, max_size) ==
    LET combined_size == ByteLen(prompt_template) + ByteLen(diff_)
    IN  IF combined_size > max_size
        THEN Err(Msg(SizeExceededFmt, <<Digits(combined_size), Digits(max_size)>>))
        ELSE Ok(Concat(Concat(prompt_template, Rep("nl", 2)), diff_))

\* A ceiling of 0 taken to mean that there is no ceiling.
prompt_build_prompt_zero_unlimited(diff_, prompt_template, max_size) ==
    LET combined_size == ByteLen(prompt_template) + 2 + ByteLen(diff_)
    IN  IF combined_size > max_size /\ max_size > 0
        THEN Err(Msg(SizeExceededFmt, <<Digits(combined_size), Digits(max_size)>>))
        ELSE Ok(Concat(Concat(prompt_template, Rep("nl", 2)), diff_))

prompt_build_prompt(diff_, prompt_template, max_size) ==
    LET combined_size == ByteLen(prompt_template) + 2 + ByteLen(diff_)
    IN  IF combined_size > max_size
        THEN Err(Msg(SizeExceededFmt, <<Digits(combined_size), Digits(max_size)>>))
        ELSE Ok(Concat(Concat(prompt_template, Rep("nl", 2)), diff_))

-----------------------------------------------------------------------------
(* claude.rs and main.rs: build_prompt *)

\* format!("{}\n{}", ..): one line feed between template and diff.
claude_build_prompt_one_newline(diff_, config_) ==
    Concat(Concat(config_.prompt, Rep("nl", 1)), diff_)

claude_build_prompt_trimmed(diff_, config_) ==
    Concat(Concat(config_.prompt, Rep("nl", 2)), Trim(diff_))

\* format!("{}\n\n{}", config.prompt, diff)
claude_build_prompt(diff_, config_) ==
    Concat(Concat(config_.prompt, Rep("nl", 2)), diff_)

\* format!("{}\n\n{}", config.prompt, diff)
main_build_prompt(diff_, config_) ==
    Concat(Concat(config_.prompt, Rep("nl", 2)), diff_)

-----------------------------------------------------------------------------
(* config.rs and main.rs: load_config.  A config file is given by what       *)
(* fs::read_to_string and toml::from_str make of it: whether it can be read, *)
(* whether it is well-formed TOML, and its `prompt` and `max_prompt_size`    *)
(* keys.                                                                     *)

ReadErr == Msg("Failed to read config file: {}", <<"config_path">>)

ParseErr == Msg("Failed to parse config file as TOML", << >>)

EmptyPromptErr ==
    Msg("Configuration error: 'prompt' field cannot be empty or whitespace-only. Please provide a valid prompt template in {}",
        <<"config_path">>)

\* The max_prompt_size key read but the default stored.
config_load_config_default_only(f) ==
    IF ~f.readable THEN Err(ReadErr)
    ELSE IF ~f.parses \/ ~f.hasPrompt \/ (f.hasMax /\ f.max < 0) THEN Err(ParseErr)
    ELSE LET config_ == [prompt |-> f.prompt,
                         max_prompt_size |-> default_max_prompt_size]
         IN  IF Trim(config_.prompt) = Empty
             THEN Err(EmptyPromptErr)
             ELSE Ok(config_)

\* The prompt checked with is_empty() alone, not trim().is_empty().
config_load_config_untrimmed(f) ==
    IF ~f.readable THEN Err(ReadErr)
    ELSE IF ~f.parses \/ ~f.hasPrompt \/ (f.hasMax /\ f.max < 0) THEN Err(ParseErr)
    ELSE LET config_ == [prompt |-> f.prompt,
                         max_prompt_size |->
                             IF f.hasMax THEN f.max ELSE default_max_prompt_size]
         IN  IF config_.prompt = Empty
             THEN Err(EmptyPromptErr)
             ELSE Ok(config_)

\* config.rs: Config { prompt, max_prompt_size (serde default, usize) }
config_load_config(f) ==
    IF ~f.readable THEN Err(ReadErr)
    ELSE IF ~f.parses \/ ~f.hasPrompt \/ (f.hasMax /\ f.max < 0) THEN Err(ParseErr)
    ELSE LET config_ == [prompt |-> f.prompt,
                         max_prompt_size |->
                             IF f.hasMax THEN f.max ELSE default_max_prompt_size]
         IN  IF Trim(config_.prompt) = Empty
             THEN Err(EmptyPromptErr)
             ELSE Ok(config_)

\* main.rs: Config { prompt }; a max_prompt_size key is an unknown key, ignored.
main_load_config(f) ==
    IF ~f.readable THEN Err(ReadErr)
    ELSE IF ~f.parses \/ ~f.hasPrompt THEN Err(ParseErr)
    ELSE Ok([prompt |-> f.prompt])

-----------------------------------------------------------------------------
(* git.rs and main.rs: get_git_diff.  o is what `git diff --cached` did:     *)
(* whether it could be started, its exit status, its captured output.        *)

\* An empty staged diff treated as an error.
git_get_git_diff_nonempty(o) ==
    IF ~o.launched
    THEN Err(Msg("Failed to execute git command. Make sure git is installed and in PATH", << >>))
    ELSE IF ~o.success
    THEN Err(Msg("Git diff command failed: {}", <<from_utf8_lossy(o.stderr)>>))
    ELSE IF Trim(from_utf8_lossy(o.stdout)) = Empty
    THEN Err(Msg("No staged changes", << >>))
    ELSE Ok(Trim(from_utf8_lossy(o.stdout)))

git_get_git_diff(o) ==
    IF ~o.launched
    THEN Err(Msg("Failed to execute git command. Make sure git is installed and in PATH", << >>))
    ELSE IF ~o.success
    THEN Err(Msg("Git diff command failed: {}", <<from_utf8_lossy(o.stderr)>>))
    ELSE Ok(Trim(from_utf8_lossy(o.stdout)))

main_get_git_diff(o) ==
    IF ~o.launched
    THEN Panic(Msg("failed to get git diff", << >>))
    ELSE Ok(from_utf8_lossy(o.stdout))

-----------------------------------------------------------------------------
(* claude.rs and main.rs: generate_message.  o is what `claude -p <prompt>`  *)
(* did.  The value is the function's result and the calls it made, in order. *)

EvValidate(template, diff_, max, r) ==
    [op |-> "validate_prompt_size", template |-> template, diff |-> diff_,
     max |-> max, ok |-> r.tag = "Ok"]

EvBuild(template, diff_, prompt) ==
    [op |-> "build_prompt", template |-> template, diff |-> diff_, prompt |-> prompt]

EvProcess(name, arg, o, r) ==
    [op |-> name, arg |-> arg, outcome |-> o, ok |-> r.tag = "Ok"]

claude_generate_message_result(o) ==
    IF ~o.launched
    THEN Err(Msg("Failed to execute 'claude' command. Make sure Claude CLI is installed and in PATH", << >>))
    ELSE IF ~o.success
    THEN Err(Msg("Claude command failed with exit code {:?}\nstderr: {}",
                 <<"code", from_utf8_lossy(o.stderr)>>))
    ELSE Ok(Trim(from_utf8_lossy(o.stdout)))

claude_generate_message(diff_, config_, o) ==
    LET v == validate_prompt_size(config_.prompt, diff_)
        ev1 == EvValidate(config_.prompt, diff_, MAX_PROMPT_SIZE, v)
    IN  IF v.tag = "Err"
        THEN [res |-> v, events |-> <<ev1>>]
        ELSE LET prompt == claude_build_prompt(diff_, config_)
                 r == claude_generate_message_result(o)
             IN  [res |-> r,
                  events |-> <<ev1, EvBuild(config_.prompt, diff_, prompt),
                               EvProcess("claude", prompt, o, r)>>]

main_generate_message_result(o) ==
    IF ~o.launched
    THEN Panic(Msg("Claude failed", << >>))
    ELSE Ok(from_utf8_lossy(o.stdout))

main_generate_message(diff_, config_, o) ==
    LET prompt == main_build_prompt(diff_, config_)
        r == main_generate_message_result(o)
    IN  [res |-> r,
         events |-> <<EvBuild(config_.prompt, diff_, prompt),
                      EvProcess("claude", prompt, o, r)>>]

-----------------------------------------------------------------------------
(* git.rs and main.rs: write_commit_message, run_git_commit; output.rs.      *)

COMMIT_MSG_PATH == ".git/COMMIT_MSG_GENERATED"

WriteErr ==
    Msg("Failed to write to .git/COMMIT_MSG_GENERATED. Make sure you are in a git repository.", << >>)

\* The result of fs::write dropped: the path returned whatever happened.
write_commit_message_unchecked(message_, w) == Ok(COMMIT_MSG_PATH)

\* fs::write(commit_msg_path, message): w says whether the write succeeded.
write_commit_message(message_, w) ==
    IF w THEN Ok(COMMIT_MSG_PATH) ELSE Err(WriteErr)

\* The exit status of `git commit` not looked at.
git_run_git_commit_unchecked(msg_file_, o) ==
    IF ~o.launched
    THEN Err(Msg("Failed to execute git commit command", << >>))
    ELSE Ok(Unit)

\* git.rs: Command::status(): o is what `git commit -v -e -F <msg_file>` did.
git_run_git_commit(msg_file_, o) ==
    IF ~o.launched
    THEN Err(Msg("Failed to execute git commit command", << >>))
    ELSE IF ~o.success
    THEN Err(Msg("Git commit command failed with exit code: {:?}", <<"code">>))
    ELSE Ok(Unit)

\* main.rs: CommandExt::exec(): returns only when git could not be started;
\* otherwise git replaces the process ("Exec": its status is git's).
main_run_git_commit(msg_file_, o) ==
    IF ~o.launched
    THEN Err(Msg("Failed to execute git commit: {}", <<"err">>))
    ELSE [tag |-> "Exec", code |-> IF o.success THEN 0 ELSE 1]

\* The text of the characters cs, in order.
RECURSIVE Text(_)
Text(cs) == IF cs = << >> THEN Empty ELSE Concat(Rep(cs[1], 1), Text(Tail(cs)))

\* n times the two characters x y.
RECURSIVE Pairs(_, _, _)
Pairs(x, y, n) == IF n = 0 THEN Empty ELSE Concat(Text(<<x, y>>), Pairs(x, y, n - 1))

\* serde_json's string escapes: "quote" is ", "bs" is \, "n" the letter n.
\* A line feed is written \n, a quote \", a backslash \\; every other
\* character of these texts, multi-byte ones included, is written as it is.
EscapeRun(r) ==
    CASE r.c = "nl"    -> Pairs("bs", "n", r.n)
      [] r.c = "quote" -> Pairs("bs", "quote", r.n)
      [] r.c = "bs"    -> Rep("bs", 2 * r.n)
      [] OTHER         -> Rep(r.c, r.n)

RECURSIVE format_escaped_str_contents(_)
format_escaped_str_contents(s) ==
    IF s = Empty THEN Empty
    ELSE Concat(EscapeRun(s[1]), format_escaped_str_contents(Tail(s)))

\* The string written between quotes without any escape.
serde_json_to_string_raw(commit_message) ==
    Concat(Text(<<"{", "quote", "m", "e", "s", "s", "a", "g", "e", "quote", ":", "quote">>),
           Concat(commit_message.message, Text(<<"quote", "}">>)))

\* serde_json::to_string(&CommitMessage { message }): {"message":"<escaped>"}
serde_json_to_string(commit_message) ==
    Concat(Text(<<"{", "quote", "m", "e", "s", "s", "a", "g", "e", "quote", ":", "quote">>),
           Concat(format_escaped_str_contents(commit_message.message),
                  Text(<<"quote", "}">>)))

-----------------------------------------------------------------------------
(* The inputs of a run: the command line, the config file, and what each     *)
(* external process does.                                                    *)

\* Half the default ceiling: two texts of Half - 1 bytes and the separator
\* make MAX_PROMPT_SIZE bytes exactly.
Half == MAX_PROMPT_SIZE \div 2

File(readable, parses, hasPrompt, prompt, hasMax, max) ==
    [readable |-> readable, parses |-> parses, hasPrompt |-> hasPrompt,
     prompt |-> prompt, hasMax |-> hasMax, max |-> max]

NoFile == File(FALSE, FALSE, FALSE, Empty, FALSE, 0)

Prompts ==
    {Empty, Rep("sp", 1), Rep("a", 1), Concat(Rep("sp", 1), Rep("a", 1)),
     Rep("a", Half - 1), Rep("a", Half)}

\* The max_prompt_size key: absent, or present with a value.
MaxKeys == {<<FALSE, 0>>, <<TRUE, -1>>, <<TRUE, 0>>, <<TRUE, 10>>,
            <<TRUE, 2 * MAX_PROMPT_SIZE>>}

ConfigFiles ==
    {NoFile,
     File(TRUE, FALSE, FALSE, Empty, FALSE, 0),
     File(TRUE, TRUE, FALSE, Empty, FALSE, 0)}
    \cup {File(TRUE, TRUE, TRUE, p, m[1], m[2]) : p \in Prompts, m \in MaxKeys}

Outcome(launched, success, stdout, stderr) ==
    [launched |-> launched, success |-> success, stdout |-> stdout, stderr |-> stderr]

DiffOutcomes ==
    {Outcome(FALSE, FALSE, Empty, Empty)}
    \cup {Outcome(TRUE, TRUE, so, Empty) :
            so \in {Empty, Rep("a", 1),
                    Concat(Rep("nl", 1), Concat(Rep("a", 1), Rep("nl", 1))),
                    Rep("bad", 1), Rep("a", Half - 1), Rep("a", Half)}}
    \cup {Outcome(TRUE, FALSE, Empty, Rep("a", 1)),
          Outcome(TRUE, FALSE, Rep("a", 1), Rep("a", 1))}

ClaudeOutcomes ==
    {Outcome(FALSE, FALSE, Empty, Empty)}
    \cup {Outcome(TRUE, TRUE, so, Empty) :
            so \in {Empty, Rep("a", 1),
                    Concat(Rep("sp", 1), Concat(Rep("a", 1), Rep("nl", 1))),
                    Text(<<"a", "quote", "quote", "bs", "n", "nl", "nl", "emoji", "a">>),
                    Rep("bad", 1)}}
    \cup {Outcome(TRUE, FALSE, Empty, Rep("a", 1)),
          Outcome(TRUE, FALSE, Rep("a", 1), Rep("a", 1)),
          Outcome(TRUE, FALSE, Rep("a", 1), Empty)}

CommitOutcomes ==
    {Outcome(FALSE, FALSE, Empty, Empty),
     Outcome(TRUE, TRUE, Empty, Empty),
     Outcome(TRUE, FALSE, Empty, Empty)}

\* fs::write: done; failed before the file was opened; failed after it was
\* created or truncated.
WriteOutcomes == {"written", "not_opened", "truncated"}

-----------------------------------------------------------------------------
(* main.rs: main().  One action per call main makes. *)

NotLoaded == [loaded |-> FALSE]

NoMsg == Msg("", << >>)

Running == [how |-> "running", code |-> 0, error |-> NoMsg]

NoCall == [fn |-> "none"]

NoInput == [template |-> Empty, diff |-> Empty]

InitRun ==
    /\ variant \in {"bin", "lib"}
    /\ json \in BOOLEAN
    /\ file \in ConfigFiles
    /\ pc = "load_config"
    /\ config = NotLoaded
    /\ diff = Empty
    /\ message = Empty
    /\ trace = << >>
    /\ out = << >>
    /\ staging = [exists |-> FALSE, content |-> Empty]
    /\ msg_file = ""
    /\ exit = Running

Init ==
    /\ InitRun
    /\ pin = NoInput
    /\ pcall = NoCall

\* main returns Err(e) (`?`): the error is printed and the status is 1.
\* A panic aborts with status 101.
Failed(r) ==
    [how |-> IF r.tag = "Panic" THEN "panic" ELSE "err",
     code |-> IF r.tag = "Panic" THEN 101 ELSE 1,
     error |-> r.err]

\* main returns Ok(()): status 0.
Succeeded == [how |-> "ok", code |-> 0, error |-> NoMsg]

\* let config = load_config(&args.config)?;
LoadConfig ==
    /\ pc = "load_config"
    /\ LET r == IF variant = "bin" THEN main_load_config(file)
                ELSE config_load_config(file)
       IN  /\ trace' = Append(trace, [op |-> "load_config", ok |-> r.tag = "Ok"])
           /\ IF r.tag = "Ok"
              THEN config' = r.val /\ pc' = "get_git_diff" /\ exit' = exit
              ELSE config' = config /\ pc' = "exit" /\ exit' = Failed(r)
    /\ UNCHANGED <<variant, json, file, diff, message, out, staging, msg_file, pin, pcall>>

\* get_git_diff called again after a failure instead of ending the run.
GetGitDiff_retry ==
    /\ pc = "get_git_diff"
    /\ \E o \in DiffOutcomes :
         LET r == IF variant = "bin" THEN main_get_git_diff(o) ELSE git_get_git_diff(o)
         IN  /\ trace' = Append(trace, EvProcess("git diff", "--cached", o, r))
             /\ IF r.tag = "Ok"
                THEN diff' = r.val /\ pc' = "generate_message"
                ELSE diff' = diff /\ pc' = "get_git_diff"
    /\ UNCHANGED <<variant, json, file, config, message, out, staging, msg_file, exit,
                   pin, pcall>>

\* let diff = get_git_diff()?;
GetGitDiff ==
    /\ pc = "get_git_diff"
    /\ \E o \in DiffOutcomes :
         LET r == IF variant = "bin" THEN main_get_git_diff(o) ELSE git_get_git_diff(o)
         IN  /\ trace' = Append(trace, EvProcess("git diff", "--cached", o, r))
             /\ IF r.tag = "Ok"
                THEN diff' = r.val /\ pc' = "generate_message" /\ exit' = exit
                ELSE diff' = diff /\ pc' = "exit" /\ exit' = Failed(r)
    /\ UNCHANGED <<variant, json, file, config, message, out, staging, msg_file, pin, pcall>>

\* let message = generate_message(&diff, &config)?;
GenerateMessage ==
    /\ pc = "generate_message"
    /\ \E o \in ClaudeOutcomes :
         LET g == IF variant = "bin" THEN main_generate_message(diff, config, o)
                  ELSE claude_generate_message(diff, config, o)
         IN  /\ trace' = trace \o g.events
             /\ IF g.res.tag = "Ok"
                THEN message' = g.res.val /\ pc' = "route" /\ exit' = exit
                ELSE message' = message /\ pc' = "exit" /\ exit' = Failed(g.res)
    /\ UNCHANGED <<variant, json, file, config, diff, out, staging, msg_file, pin, pcall>>

\* if args.json { println!("{}", serde_json::to_string(&output)?); }  Ok(())
PrintJson ==
    /\ pc = "route"
    /\ json
    /\ LET output == [message |-> message]
       IN  /\ out' = Append(out, [line |-> "{}", arg |-> serde_json_to_string(output)])
           /\ trace' = Append(trace, [op |-> "print_json", message |-> message])
    /\ pc' = "exit"
    /\ exit' = Succeeded
    /\ UNCHANGED <<variant, json, file, config, diff, message, staging, msg_file, pin, pcall>>

\* The else branch taken whatever args.json is.
WriteCommitMessage_any_mode ==
    /\ pc = "route"
    /\ \E w \in WriteOutcomes :
         LET r == write_commit_message(message, w = "written")
         IN  /\ trace' = Append(trace, [op |-> "write", path |-> COMMIT_MSG_PATH,
                                        message |-> message, ok |-> r.tag = "Ok"])
             /\ staging' = IF w = "written"
                           THEN [exists |-> TRUE, content |-> message]
                           ELSE staging
             /\ msg_file' = IF r.tag = "Ok" THEN r.val ELSE msg_file
             /\ pc' = IF r.tag = "Ok" THEN "run_git_commit" ELSE "exit"
             /\ exit' = IF r.tag = "Ok" THEN exit ELSE Failed(r)
    /\ UNCHANGED <<variant, json, file, config, diff, message, out, pin, pcall>>

\* else { let msg_file = write_commit_message(&message)?; println!(..); println!(..);
WriteCommitMessage ==
    /\ pc = "route"
    /\ ~json
    /\ \E w \in WriteOutcomes :
         LET r == write_commit_message(message, w = "written")
         IN  /\ trace' = Append(trace, [op |-> "write", path |-> COMMIT_MSG_PATH,
                                        message |-> message, ok |-> r.tag = "Ok"])
             /\ staging' = CASE w = "written"    -> [exists |-> TRUE, content |-> message]
                             [] w = "truncated"  -> [exists |-> TRUE, content |-> Empty]
                             [] OTHER            -> staging
             /\ IF r.tag = "Ok"
                THEN /\ msg_file' = r.val
                     /\ out' = out \o <<[line |-> "Commit message has been written to {}",
                                         arg |-> r.val],
                                        [line |-> "Launching git commit...\n", arg |-> ""]>>
                     /\ pc' = "run_git_commit"
                     /\ exit' = exit
                ELSE /\ msg_file' = msg_file
                     /\ out' = out
                     /\ pc' = "exit"
                     /\ exit' = Failed(r)
    /\ UNCHANGED <<variant, json, file, config, diff, message, pin, pcall>>

\* run_git_commit(&msg_file)?; }  Ok(())
RunGitCommit ==
    /\ pc = "run_git_commit"
    /\ \E o \in CommitOutcomes :
         LET r == IF variant = "bin" THEN main_run_git_commit(msg_file, o)
                  ELSE git_run_git_commit(msg_file, o)
         IN  /\ trace' = Append(trace, EvProcess("git commit", msg_file, o, r))
             /\ exit' = CASE r.tag = "Ok"   -> Succeeded
                          [] r.tag = "Exec" -> [how |-> "exec", code |-> r.code,
                                                error |-> NoMsg]
                          [] OTHER          -> Failed(r)
    /\ pc' = "exit"
    /\ UNCHANGED <<variant, json, file, config, diff, message, out, staging, msg_file,
                   pin, pcall>>

Next ==
    \/ LoadConfig
    \/ GetGitDiff
    \/ GenerateMessage
    \/ PrintJson
    \/ WriteCommitMessage
    \/ RunGitCommit

Spec == Init /\ [][Next]_vars

-----------------------------------------------------------------------------
(* Direct calls of single functions (as the unit tests make them), on a      *)
(* template and a diff drawn at the start.                                   *)

PureChars == {"a", "nl", "emoji"}

PureCounts == {1, Half - 1, Half}

PureRuns == [c : PureChars, n : PureCounts]

\* The texts of at most k runs.
Texts(k) ==
    {s \in UNION {[1..m -> PureRuns] : m \in 0..k} :
        \A i \in 1..(Len(s) - 1) : s[i].c # s[i + 1].c}

Ceilings == (0..MaxCeiling) \cup {MAX_PROMPT_SIZE, 2 * MAX_PROMPT_SIZE}

InitCalls ==
    /\ pin \in [template : Texts(MaxRuns), diff : Texts(1)]
    /\ pcall = NoCall
    /\ variant = "lib"
    /\ json = FALSE
    /\ file = NoFile
    /\ pc = "none"
    /\ config = NotLoaded
    /\ diff = Empty
    /\ message = Empty
    /\ trace = << >>
    /\ out = << >>
    /\ staging = [exists |-> FALSE, content |-> Empty]
    /\ msg_file = ""
    /\ exit = Running

Call(fn, max, ret) == [fn |-> fn, max |-> max, ret |-> ret]

\* The validation leaving a file behind.
CallValidate_writes_file ==
    /\ pcall' = Call("validate_prompt_size", MAX_PROMPT_SIZE,
                     validate_prompt_size(pin.template, pin.diff))
    /\ staging' = [exists |-> TRUE, content |-> pin.diff]
    /\ UNCHANGED <<pin, variant, json, file, pc, config, diff, message, trace, out,
                   msg_file, exit>>

\* validation::validate_prompt_size(template, diff)
CallValidate ==
    /\ pcall' = Call("validate_prompt_size", MAX_PROMPT_SIZE,
                     validate_prompt_size(pin.template, pin.diff))
    /\ UNCHANGED <<pin, runVars>>

\* validation::calculate_prompt_size(template, diff)
CallCalculate ==
    /\ pcall' = Call("calculate_prompt_size", 0,
                     calculate_prompt_size(pin.template, pin.diff))
    /\ UNCHANGED <<pin, runVars>>

\* prompt::build_prompt(diff, template, max_size)
CallPromptBuild ==
    /\ \E max_size \in Ceilings :
         pcall' = Call("prompt::build_prompt", max_size,
                       prompt_build_prompt(pin.diff, pin.template, max_size))
    /\ UNCHANGED <<pin, runVars>>

\* claude::build_prompt(diff, &Config { prompt: template, .. })
CallClaudeBuild ==
    /\ pcall' = Call("claude::build_prompt", 0,
                     claude_build_prompt(pin.diff,
                         [prompt |-> pin.template,
                          max_prompt_size |-> default_max_prompt_size]))
    /\ UNCHANGED <<pin, runVars>>

\* main.rs build_prompt(diff, &Config { prompt: template })
CallMainBuild ==
    /\ pcall' = Call("main::build_prompt", 0,
                     main_build_prompt(pin.diff, [prompt |-> pin.template]))
    /\ UNCHANGED <<pin, runVars>>

\* claude::generate_message(diff, &Config { prompt: template, .. })
CallGenerate ==
    /\ \E o \in ClaudeOutcomes :
         pcall' = Call("claude::generate_message", MAX_PROMPT_SIZE,
                       claude_generate_message(pin.diff,
                           [prompt |-> pin.template,
                            max_prompt_size |-> default_max_prompt_size], o))
    /\ UNCHANGED <<pin, runVars>>

NextCalls ==
    \/ CallValidate
    \/ CallGenerate
    \/ CallCalculate
    \/ CallPromptBuild
    \/ CallClaudeBuild
    \/ CallMainBuild

SpecCalls == InitCalls /\ [][NextCalls]_vars

-----------------------------------------------------------------------------
(* What the properties below measure texts with: the encoded length and the  *)
(* character at a position, read off the runs one index at a time.           *)

EncodedWidth(c) == IF c = "emoji" THEN 4 ELSE IF c = "fffd" THEN 3 ELSE 1

Bytes(s) ==
    LET acc[i \in 0..Len(s)] ==
            IF i = 0 THEN 0 ELSE acc[i - 1] + s[i].n * EncodedWidth(s[i].c)
    IN  acc[Len(s)]

\* The number of characters in the first i runs of s.
Upto(s, i) ==
    LET acc[k \in 0..Len(s)] == IF k = 0 THEN 0 ELSE acc[k - 1] + s[k].n
    IN  acc[i]

Chars(s) == Upto(s, Len(s))

\* The character of s at position p, 1 <= p <= Chars(s).
CharAt(s, p) ==
    s[CHOOSE i \in 1..Len(s) : Upto(s, i - 1) < p /\ p <= Upto(s, i)].c

\* The positions at which a run of s starts.
Starts(s) == {Upto(s, i - 1) + 1 : i \in 1..Len(s)}

WellFormed(s) ==
    /\ \A i \in 1..Len(s) : s[i].n >= 1
    /\ \A i \in 1..(Len(s) - 1) : s[i].c # s[i + 1].c

\* r is t, then two line feeds, then d, character for character.  Both sides
\* are constant between run starts, so comparing at every run start of either
\* side compares everywhere.
IsTemplateSepDiff(r, t, d) ==
    LET lt == Chars(t)
        expected(p) == IF p <= lt THEN CharAt(t, p)
                       ELSE IF p <= lt + 2 THEN "nl"
                       ELSE CharAt(d, p - lt - 2)
        probes == Starts(r) \cup Starts(t) \cup {lt + 1}
                  \cup {lt + 2 + p : p \in Starts(d)}
    IN  /\ WellFormed(r)
        /\ Chars(r) = lt + 2 + Chars(d)
        /\ \A p \in probes : CharAt(r, p) = expected(p)

\* The number a sequence of decimal digits writes.
Value(ds) ==
    LET acc[i \in 0..Len(ds)] == IF i = 0 THEN 0 ELSE acc[i - 1] * 10 + ds[i]
    IN  acc[Len(ds)]

SizeChecked == pcall.fn \in {"validate_prompt_size", "prompt::build_prompt"}

PinTotal == Bytes(pin.template) + 2 + Bytes(pin.diff)

-----------------------------------------------------------------------------
(* Properties of the direct calls (SpecCalls). *)

\* C1: size validation of a template and a diff under a ceiling succeeds if
\* and only if bytes(template) + 2 + bytes(diff) <= ceiling; it fails in every
\* other case.  (validate_prompt_size's ceiling is MAX_PROMPT_SIZE.)
C1_ValidIffWithinCeiling ==
    SizeChecked => ((pcall.ret.tag = "Ok") <=> (PinTotal <= pcall.max))

\* A multi-byte template rejected under a ceiling above the default one.
C1_Witness ==
    /\ pcall.fn = "prompt::build_prompt"
    /\ pcall.max = 2 * MAX_PROMPT_SIZE
    /\ pcall.ret.tag = "Err"
    /\ \E i \in 1..Len(pin.template) : pin.template[i].c = "emoji"

\* C4: acceptance is inclusive at the boundary: a total equal to the ceiling
\* passes, a total equal to the ceiling + 1 fails.
C4_BoundaryInclusive ==
    SizeChecked =>
        /\ (PinTotal = pcall.max) => pcall.ret.tag = "Ok"
        /\ (PinTotal = pcall.max + 1) => pcall.ret.tag = "Err"

\* validate_prompt_size accepts a total of exactly MAX_PROMPT_SIZE bytes.
C4_Witness ==
    /\ pcall.fn = "validate_prompt_size"
    /\ PinTotal = MAX_PROMPT_SIZE
    /\ pcall.ret.tag = "Ok"

\* C5: build_prompt (claude.rs, main.rs) returns the template, then the two
\* bytes "\n\n", then the diff, neither input trimmed or normalised; it returns
\* a text (not a Result), and for two empty inputs exactly "\n\n".
C5_BuildIsTemplateSepDiff ==
    pcall.fn \in {"claude::build_prompt", "main::build_prompt"} =>
        /\ IsTemplateSepDiff(pcall.ret, pin.template, pin.diff)
        /\ Bytes(pcall.ret) = Bytes(pin.template) + 2 + Bytes(pin.diff)
        /\ (pin.template = << >> /\ pin.diff = << >>)
               => pcall.ret = <<[c |-> "nl", n |-> 2]>>

\* A diff of line feeds only, after a template of two runs: nothing is trimmed.
C5_Witness ==
    /\ pcall.fn = "claude::build_prompt"
    /\ Len(pin.template) = 2
    /\ pin.diff # << >> /\ pin.diff[1].c = "nl"
    /\ Chars(pcall.ret) = Chars(pin.template) + 2 + Chars(pin.diff)

\* C6: when size validation fails, the error holds the computed total and the
\* ceiling as integers, in that order, and the fixed hint about reducing the
\* staged changes or splitting into multiple commits; no prompt is built: the
\* failed result carries no text and generate_message makes no further call.
C6_SizeErrorContent ==
    /\ (SizeChecked /\ pcall.ret.tag = "Err") =>
           /\ pcall.ret.err.fmt =
                  "Prompt size ({} bytes) exceeds maximum allowed size ({} bytes). Consider reducing the size of staged changes or splitting into multiple commits."
           /\ Len(pcall.ret.err.args) = 2
           /\ Value(pcall.ret.err.args[1]) = PinTotal
           /\ Value(pcall.ret.err.args[2]) = pcall.max
           /\ DOMAIN pcall.ret = {"tag", "err"}
    /\ (pcall.fn = "claude::generate_message" /\ PinTotal > pcall.max) =>
           /\ pcall.ret.res.tag = "Err"
           /\ Value(pcall.ret.res.err.args[1]) = PinTotal
           /\ Value(pcall.ret.res.err.args[2]) = pcall.max
           /\ \A i \in 1..Len(pcall.ret.events) :
                  pcall.ret.events[i].op \notin {"build_prompt", "claude"}

\* generate_message rejects a total one byte over the ceiling.
C6_Witness ==
    /\ pcall.fn = "claude::generate_message"
    /\ PinTotal = MAX_PROMPT_SIZE + 1
    /\ pcall.ret.res.tag = "Err"
    /\ Len(pcall.ret.events) = 1

-----------------------------------------------------------------------------
(* Properties of a run (Spec). *)

Steps == 1..Len(trace)

Did(op) == \E i \in Steps : trace[i].op = op

HasCeiling == "max_prompt_size" \in DOMAIN config

\* C2: whenever the prompt builder or the generator is invoked, size
\* validation has passed earlier in the run on the same template, the same
\* diff and the size ceiling of the run's configuration.
C2_ValidatedBeforeBuild ==
    \A i \in Steps :
        trace[i].op \in {"build_prompt", "claude"} =>
            \E j \in 1..(i - 1) :
                /\ trace[j].op = "validate_prompt_size"
                /\ trace[j].ok
                /\ trace[j].template = config.prompt
                /\ trace[j].diff = diff
                /\ HasCeiling => trace[j].max = config.max_prompt_size

\* C3: with a loaded configuration whose max_prompt_size is M, generate_message
\* rejects for size if and only if bytes(prompt) + 2 + bytes(diff) > M,
\* whatever M is.
C3_ConfiguredCeilingApplied ==
    (HasCeiling /\ Did("validate_prompt_size")) =>
        ((\E i \in Steps : trace[i].op = "validate_prompt_size" /\ ~trace[i].ok)
            <=> (Bytes(config.prompt) + 2 + Bytes(diff) > config.max_prompt_size))

\* C7: with --json the commit step is never reached: the staging file is not
\* written and git commit is not invoked.
C7_JsonNeverCommits ==
    json =>
        /\ ~Did("write")
        /\ ~Did("git commit")
        /\ ~staging.exists
        /\ pc # "run_git_commit"
        /\ msg_file = ""

\* A --json run that printed its message and ended with status 0.
C7_Witness ==
    /\ json
    /\ pc = "exit"
    /\ exit.how = "ok"
    /\ Did("print_json")
    /\ Len(out) = 1

\* A step failed: the function returned an error or panicked, or the
\* external process it ran could not be started or exited with a failure status.
StepFailed(e) ==
    \/ e.op \in {"load_config", "validate_prompt_size", "write"} /\ ~e.ok
    \/ e.op \in {"git diff", "claude", "git commit"}
           /\ (~e.outcome.launched \/ ~e.outcome.success)

\* C8: a failure at any step ends the run with a non-zero status and no later
\* step is executed: the failed step is the last step of the run.
C8_FailureEndsRun ==
    \A i \in Steps :
        StepFailed(trace[i]) =>
            /\ i = Len(trace)
            /\ pc = "exit"
            /\ exit.code # 0

\* C9: when the generator exits with a non-zero status, generation is an
\* error that carries the captured standard error, and the generator's
\* standard output is neither printed as JSON nor written to the staging file.
C9_GeneratorFailureIsError ==
    \A i \in Steps :
        (trace[i].op = "claude" /\ trace[i].outcome.launched
                                /\ ~trace[i].outcome.success) =>
            /\ ~trace[i].ok
            /\ pc = "exit"
            /\ exit.how = "err"
            /\ Len(exit.error.args) = 2
            /\ exit.error.args[2] = from_utf8_lossy(trace[i].outcome.stderr)
            /\ ~Did("print_json")
            /\ ~Did("write")
            /\ out = << >>
            /\ ~staging.exists

\* The place of a call in the sequence load config, fetch diff, validate,
\* build, invoke the generator, route the output.
Rank(op) ==
    CASE op = "load_config"          -> 1
      [] op = "git diff"             -> 2
      [] op = "validate_prompt_size" -> 3
      [] op = "build_prompt"         -> 4
      [] op = "claude"               -> 5
      [] OTHER                       -> 6

Completed(e) == IF "ok" \in DOMAIN e THEN e.ok ELSE TRUE

\* C10: the steps of a run happen in the order load config, fetch the staged
\* diff, validate and build the prompt, invoke the generator, route the
\* output, and a step starts only when every earlier step has completed
\* successfully.
C10_FixedOrder ==
    \A i \in Steps :
        \A q \in 1..5 :
            q < Rank(trace[i].op) =>
                \E j \in 1..(i - 1) : Rank(trace[j].op) = q /\ Completed(trace[j])

-----------------------------------------------------------------------------
(* Properties of the size computation (SpecCalls). *)

MultiByte(s) == \E i \in 1..Len(s) : EncodedWidth(s[i].c) > 1

\* C17: size is measured in encoded bytes: the computed total is the sum of
\* the UTF-8 byte lengths of template and diff plus 2, and for a pair holding
\* a multi-byte character it is strictly greater than the sum of the two
\* character counts.
C17_SizeInBytes ==
    pcall.fn = "calculate_prompt_size" =>
        /\ pcall.ret = Bytes(pin.template) + 2 + Bytes(pin.diff)
        /\ (MultiByte(pin.template) \/ MultiByte(pin.diff))
               => pcall.ret > Chars(pin.template) + Chars(pin.diff) + 2

\* The size of a template of four-byte characters and an ASCII diff.
C17_Witness ==
    /\ pcall.fn = "calculate_prompt_size"
    /\ MultiByte(pin.template)
    /\ ~MultiByte(pin.diff) /\ pin.diff # << >>
    /\ pcall.ret > Chars(pin.template) + Chars(pin.diff) + 2

-----------------------------------------------------------------------------
(* Relations between the size functions (SpecCalls). *)

\* C24: the byte length of the string build_prompt returns is
\* calculate_prompt_size of the same template and diff; so every prompt
\* generate_message hands to `claude -p` after a passed validation is no
\* longer, in bytes, than the ceiling that validation used.
C24_BuiltLengthIsCalculatedSize ==
    /\ pcall.fn \in {"claude::build_prompt", "main::build_prompt"} =>
           Bytes(pcall.ret) = calculate_prompt_size(pin.template, pin.diff)
    /\ pcall.fn = "claude::generate_message" =>
           LET ev == pcall.ret.events
           IN  \A i \in 1..Len(ev) :
                   ev[i].op = "claude" =>
                       \E j \in 1..(i - 1) :
                           /\ ev[j].op = "validate_prompt_size"
                           /\ ev[j].ok
                           /\ Bytes(ev[i].arg)
                                  = calculate_prompt_size(ev[j].template, ev[j].diff)
                           /\ Bytes(ev[i].arg) <= ev[j].max

\* A prompt of exactly the ceiling's size handed to the generator.
C24_Witness ==
    /\ pcall.fn = "claude::generate_message"
    /\ \E i \in 1..Len(pcall.ret.events) :
           /\ pcall.ret.events[i].op = "claude"
           /\ Bytes(pcall.ret.events[i].arg) = MAX_PROMPT_SIZE
    /\ pin.template # << >> /\ pin.diff # << >>

ConfigOf(template) == [prompt |-> template, max_prompt_size |-> 1000000]

\* C25: the two size checks agree: validation::validate_prompt_size(template,
\* diff) succeeds exactly when prompt::build_prompt(diff, template, 1000000)
\* succeeds, the latter's value is then what claude::build_prompt returns on
\* the same inputs, and on failure both report the same total and ceiling.
C25_SizeChecksAgree ==
    /\ pcall.fn = "validate_prompt_size" =>
           LET b == prompt_build_prompt(pin.diff, pin.template, 1000000)
           IN  /\ (pcall.ret.tag = "Ok") <=> (b.tag = "Ok")
               /\ pcall.ret.tag = "Err" => b.err = pcall.ret.err
    /\ (pcall.fn = "prompt::build_prompt" /\ pcall.max = 1000000) =>
           LET v == validate_prompt_size(pin.template, pin.diff)
           IN  /\ (pcall.ret.tag = "Ok") <=> (v.tag = "Ok")
               /\ pcall.ret.tag = "Err" => v.err = pcall.ret.err
               /\ pcall.ret.tag = "Ok" =>
                      pcall.ret.val = claude_build_prompt(pin.diff, ConfigOf(pin.template))

\* Inputs one byte over the ceiling, refused by validate_prompt_size.
C25_Witness ==
    /\ pcall.fn = "validate_prompt_size"
    /\ pcall.ret.tag = "Err"
    /\ Value(pcall.ret.err.args[1]) = 1000001
    /\ Value(pcall.ret.err.args[2]) = 1000000

\* The size check the last call made, on other inputs.
CheckedAgain(t, d, max) ==
    IF pcall.fn = "validate_prompt_size"
    THEN validate_prompt_size(t, d)
    ELSE prompt_build_prompt(d, t, max)

\* The ceilings the last call's function can be given.
CeilingsOfCall == IF pcall.fn = "validate_prompt_size" THEN {pcall.max} ELSE Ceilings

\* C26: size validation is monotone: a check that passes also passes under
\* every larger ceiling and for every template or diff of fewer bytes; a
\* check that fails also fails under every smaller ceiling and for every
\* template or diff of more bytes.  A ceiling below 2 rejects every input,
\* the empty template with the empty diff included.
C26_ValidationMonotone ==
    SizeChecked =>
        /\ pcall.ret.tag = "Ok" =>
              /\ \A m \in CeilingsOfCall :
                     m >= pcall.max => CheckedAgain(pin.template, pin.diff, m).tag = "Ok"
              /\ \A t \in Texts(MaxRuns) :
                     Bytes(t) <= Bytes(pin.template)
                         => CheckedAgain(t, pin.diff, pcall.max).tag = "Ok"
              /\ \A d \in Texts(1) :
                     Bytes(d) <= Bytes(pin.diff)
                         => CheckedAgain(pin.template, d, pcall.max).tag = "Ok"
        /\ pcall.ret.tag = "Err" =>
              /\ \A m \in CeilingsOfCall :
                     m <= pcall.max => CheckedAgain(pin.template, pin.diff, m).tag = "Err"
              /\ \A t \in Texts(MaxRuns) :
                     Bytes(t) >= Bytes(pin.template)
                         => CheckedAgain(t, pin.diff, pcall.max).tag = "Err"
              /\ \A d \in Texts(1) :
                     Bytes(d) >= Bytes(pin.diff)
                         => CheckedAgain(pin.template, d, pcall.max).tag = "Err"
        /\ pcall.max < 2 => pcall.ret.tag = "Err"

\* The empty template and the empty diff refused under a ceiling of 1.
C26_Witness ==
    /\ pcall.fn = "prompt::build_prompt"
    /\ pcall.max = 1
    /\ pin.template = << >> /\ pin.diff = << >>
    /\ pcall.ret.tag = "Err"

-----------------------------------------------------------------------------
(* Properties of configuration loading (Spec). *)

AllWhitespace(s) == \A i \in 1..Len(s) : s[i].c \in {"sp", "nl"}

Loaded == Did("load_config") /\ trace[1].ok

LoadFailed == Did("load_config") /\ ~trace[1].ok

\* The file can be read and deserialises into the variant's Config.
FileWellFormed ==
    /\ file.readable /\ file.parses /\ file.hasPrompt
    /\ (variant = "lib" /\ file.hasMax) => file.max >= 0

\* A prompt that is empty or all whitespace is refused with a configuration
\* error, any other prompt of a readable, well-formed file is accepted, and
\* diff retrieval is never reached with an empty or all-whitespace template.
EmptyPromptRefused ==
    /\ (Did("load_config") /\ FileWellFormed /\ AllWhitespace(file.prompt)) =>
           /\ LoadFailed
           /\ exit.how = "err"
           /\ exit.error.fmt =
                  "Configuration error: 'prompt' field cannot be empty or whitespace-only. Please provide a valid prompt template in {}"
    /\ (Did("load_config") /\ FileWellFormed /\ ~AllWhitespace(file.prompt)) =>
           Loaded /\ config.prompt = file.prompt
    /\ Did("git diff") => ~AllWhitespace(config.prompt)

\* C11 (as stated): loading a configuration whose prompt is empty or all
\* whitespace fails with a configuration error, loading one with a
\* non-whitespace character succeeds, and the orchestrator never proceeds to
\* diff retrieval with an empty or all-whitespace template.
C11_EmptyPromptRejected == EmptyPromptRefused

\* C11 (amended): config::load_config refuses an empty or all-whitespace
\* prompt and accepts every other prompt of a readable, well-formed file, so a
\* run on the library's functions never reaches diff retrieval with such a
\* template; main.rs's own load_config makes no such check and accepts every
\* prompt of a readable, well-formed file.
C11_LibraryRejectsEmptyPrompt ==
    /\ variant = "lib" => EmptyPromptRefused
    /\ (variant = "bin" /\ Did("load_config") /\ FileWellFormed) =>
           Loaded /\ config.prompt = file.prompt

\* The library's loader refusing a prompt of one space.
C11_Witness ==
    /\ variant = "lib"
    /\ file.hasPrompt /\ file.prompt # << >> /\ AllWhitespace(file.prompt)
    /\ LoadFailed
    /\ pc = "exit"

\* C12: every configuration load_config returns has a max_prompt_size of at
\* least 1, and a config file giving max_prompt_size = 0 is never loaded.
C12_CeilingPositive ==
    /\ (Loaded /\ HasCeiling) => config.max_prompt_size >= 1
    /\ (file.hasMax /\ file.max = 0) => ~Loaded

\* C13: when the config file omits max_prompt_size the loaded ceiling is
\* exactly 1,000,000, and when the key is present the loaded ceiling is the
\* given value.
C13_CeilingDefaultOrGiven ==
    (Loaded /\ HasCeiling) =>
        /\ ~file.hasMax => config.max_prompt_size = 1000000
        /\ file.hasMax => config.max_prompt_size = file.max

\* A file without the key loaded with the default, and used by a run.
C13_Witness ==
    /\ Loaded /\ HasCeiling
    /\ ~file.hasMax
    /\ config.max_prompt_size = 1000000
    /\ Did("git diff")

-----------------------------------------------------------------------------
(* Properties of the texts a run passes along (Spec). *)

\* Process output that is UTF-8 throughout.
ValidUtf8(raw) == \A i \in 1..Len(raw) : raw[i].c # "bad"

\* The text between the first and the last character that is not whitespace.
Stripped(s) ==
    LET keep == {i \in 1..Len(s) : s[i].c \notin {"sp", "nl"}}
    IN  IF keep = {} THEN << >>
        ELSE SubSeq(s, CHOOSE i \in keep : \A j \in keep : i <= j,
                       CHOOSE i \in keep : \A j \in keep : i >= j)

EventsOf(op) == {i \in 1..Len(trace) : trace[i].op = op}

\* The characters of s one by one.
RECURSIVE Flat(_)
Flat(s) == IF s = << >> THEN << >> ELSE [i \in 1..s[1].n |-> s[1].c] \o Flat(Tail(s))

\* Reading a JSON string: f[i] is the character after the opening quote.
\* The value is the string read so far and the position after the closing
\* quote, or a failure (no closing quote, a raw line feed, an unknown escape).
RECURSIVE ScanString(_, _, _)
ScanString(f, i, acc) ==
    IF i > Len(f) \/ f[i] = "nl" THEN [ok |-> FALSE]
    ELSE IF f[i] = "quote" THEN [ok |-> TRUE, val |-> acc, next |-> i + 1]
    ELSE IF f[i] # "bs" THEN ScanString(f, i + 1, Append(acc, f[i]))
    ELSE IF i + 1 > Len(f) THEN [ok |-> FALSE]
    ELSE CASE f[i + 1] = "n"     -> ScanString(f, i + 2, Append(acc, "nl"))
           [] f[i + 1] = "quote" -> ScanString(f, i + 2, Append(acc, "quote"))
           [] f[i + 1] = "bs"    -> ScanString(f, i + 2, Append(acc, "bs"))
           [] OTHER              -> [ok |-> FALSE]

\* Reading f as a JSON object of exactly one member with a string value.
ParseObject(f) ==
    IF Len(f) < 2 \/ f[1] # "{" \/ f[2] # "quote" THEN [ok |-> FALSE]
    ELSE LET k == ScanString(f, 3, << >>)
         IN  IF ~k.ok THEN [ok |-> FALSE]
             ELSE IF k.next + 1 > Len(f) \/ f[k.next] # ":" \/ f[k.next + 1] # "quote"
             THEN [ok |-> FALSE]
             ELSE LET v == ScanString(f, k.next + 2, << >>)
                  IN  IF ~v.ok THEN [ok |-> FALSE]
                      ELSE IF v.next # Len(f) \/ f[v.next] # "}" THEN [ok |-> FALSE]
                      ELSE [ok |-> TRUE, key |-> k.val, value |-> v.val]

\* C14: the diff that is size-validated and embedded in the prompt is the
\* standard output of `git diff --cached` unchanged (for output that is
\* UTF-8): nothing is added or removed at either end.
C14_DiffIsStdout ==
    \A i \in EventsOf("validate_prompt_size") \cup EventsOf("build_prompt") :
        \E j \in EventsOf("git diff") :
            /\ j < i
            /\ ValidUtf8(trace[j].outcome.stdout)
                  => trace[i].diff = trace[j].outcome.stdout

\* C15: the message of a successful generation is the standard output of
\* `claude -p` with the surrounding whitespace removed and nothing else
\* changed (for output that is UTF-8), and that value is what is printed in
\* JSON mode or written to the staging file.
C15_MessageIsTrimmedStdout ==
    /\ \A i \in EventsOf("claude") :
           (trace[i].ok /\ ValidUtf8(trace[i].outcome.stdout))
               => message = Stripped(trace[i].outcome.stdout)
    /\ \A i \in EventsOf("print_json") :
           /\ trace[i].message = message
           /\ Len(out) = 1
           /\ ParseObject(Flat(out[1].arg)).ok
           /\ ParseObject(Flat(out[1].arg)).value = Flat(message)
    /\ \A i \in EventsOf("write") :
           /\ trace[i].message = message
           /\ trace[i].ok => staging.content = message

-----------------------------------------------------------------------------
(* Properties of the commit route (Spec). *)

\* C16: in a run without --json, `git commit` is invoked only after
\* .git/COMMIT_MSG_GENERATED has been written with the final message, it is
\* given that same path as its message file, and it is never invoked when the
\* write failed.
C16_StagedBeforeCommit ==
    /\ \A i \in EventsOf("git commit") :
           /\ ~json
           /\ i > 1
           /\ trace[i - 1].op = "write"
           /\ trace[i - 1].ok
           /\ trace[i - 1].message = message
           /\ trace[i - 1].path = ".git/COMMIT_MSG_GENERATED"
           /\ trace[i].arg = trace[i - 1].path
    /\ (pc = "run_git_commit" \/ EventsOf("git commit") # {})
           => staging = [exists |-> TRUE, content |-> message]
    /\ \A i \in EventsOf("write") :
           (~trace[i].ok \/ staging.content # message \/ ~staging.exists)
               => EventsOf("git commit") = {} /\ pc = "exit"

\* A commit launched on a staged message that is not empty.
C16_Witness ==
    /\ ~json
    /\ EventsOf("git commit") # {}
    /\ message # << >>
    /\ staging = [exists |-> TRUE, content |-> message]
    /\ msg_file = ".git/COMMIT_MSG_GENERATED"

-----------------------------------------------------------------------------
(* Properties of the JSON route (Spec). *)

\* C18: in JSON mode the output is one JSON object whose only member is
\* "message" and whose value is the generated message, for every message,
\* the empty one included.
C18_JsonIsMessageObject ==
    \A i \in EventsOf("print_json") :
        /\ json
        /\ Len(out) = 1
        /\ LET parsed == ParseObject(Flat(out[1].arg))
           IN  /\ parsed.ok
               /\ parsed.key = <<"m", "e", "s", "s", "a", "g", "e">>
               /\ parsed.value = Flat(message)

\* A message with quotes, a backslash, line feeds and a four-byte character
\* printed in JSON mode.
C18_Witness ==
    /\ EventsOf("print_json") # {}
    /\ {"quote", "bs", "nl", "emoji"} \subseteq {message[i].c : i \in 1..Len(message)}
    /\ Len(out) = 1

-----------------------------------------------------------------------------
(* Properties of the external commands' failures (Spec). *)

\* C21: when `git diff --cached` starts but exits with a failure status, diff
\* retrieval is an error carrying the captured standard error, the run stops
\* before size validation and before the generator, and the process's
\* standard output is never used as the diff.
C21_FailedDiffIsError ==
    \A i \in EventsOf("git diff") :
        (trace[i].outcome.launched /\ ~trace[i].outcome.success) =>
            /\ ~trace[i].ok
            /\ pc = "exit"
            /\ exit.how = "err"
            /\ ValidUtf8(trace[i].outcome.stderr)
                   => exit.error.args = <<trace[i].outcome.stderr>>
            /\ EventsOf("validate_prompt_size") = {}
            /\ EventsOf("build_prompt") = {}
            /\ EventsOf("claude") = {}
            /\ diff = << >>

\* C22: the commit step reports success only when `git commit` succeeded:
\* git::run_git_commit returns Ok exactly when the command was started and
\* exited with a success status, and main.rs's run_git_commit, which replaces
\* the process, never returns Ok: it returns only an error, when the command
\* could not be started.
C22_CommitOkIffSucceeded ==
    \A i \in EventsOf("git commit") :
        LET o == trace[i].outcome
        IN  /\ variant = "lib" =>
                 /\ trace[i].ok <=> (o.launched /\ o.success)
                 /\ (exit.how = "ok") <=> (o.launched /\ o.success)
                 /\ exit.how \in {"ok", "err"}
            /\ variant = "bin" =>
                 /\ ~trace[i].ok
                 /\ exit.how # "ok"
                 /\ (exit.how = "err") <=> ~o.launched
                 /\ (exit.how = "exec") <=> o.launched
                 /\ exit.how = "exec" => (exit.code = 0 <=> o.success)

\* The library's commit step failing on a `git commit` that exited with a
\* failure status.
C22_Witness ==
    /\ variant = "lib"
    /\ \E i \in EventsOf("git commit") :
           trace[i].outcome.launched /\ ~trace[i].outcome.success /\ ~trace[i].ok
    /\ exit.how = "err"
    /\ exit.code = 1

\* C23: within one run the diff command, the generator and the commit
\* command are each invoked at most once and the staging file is written at
\* most once, on every path, the failing ones included.
C23_EachStepAtMostOnce ==
    \A op \in {"git diff", "claude", "git commit", "write"} :
        \A i, j \in EventsOf(op) : i = j

\* A run that went through every external step once and failed at the last.
C23_Witness ==
    /\ \A op \in {"git diff", "claude", "git commit", "write"} :
           Cardinality(EventsOf(op)) = 1
    /\ pc = "exit"
    /\ exit.how = "err"

-----------------------------------------------------------------------------
(* Properties of a run on an empty staged diff (Spec). *)

\* `git diff --cached` ran, succeeded and printed nothing.
EmptyDiffRetrieved ==
    \E i \in EventsOf("git diff") :
        /\ trace[i].outcome.launched /\ trace[i].outcome.success
        /\ trace[i].outcome.stdout = << >>

\* C27: an empty staged diff does not stop a run: when diff retrieval
\* succeeds with the empty text and the template is within the ceiling, the
\* run goes on to generation, validation passes, `claude -p` is invoked with
\* the template followed by two line feeds, and when it succeeds the run
\* reaches the output step.
C27_EmptyDiffContinues ==
    (EmptyDiffRetrieved /\ Bytes(config.prompt) + 2 <= MAX_PROMPT_SIZE) =>
        /\ diff = << >>
        /\ pc # "exit" \/ EventsOf("claude") # {}
        /\ \A i \in EventsOf("validate_prompt_size") :
               trace[i].ok /\ trace[i].diff = << >>
        /\ \A i \in EventsOf("claude") :
               /\ Chars(trace[i].arg) = Chars(config.prompt) + 2
               /\ IsTemplateSepDiff(trace[i].arg, config.prompt, << >>)
               /\ trace[i].ok =>
                      \/ pc \in {"route", "run_git_commit"}
                      \/ EventsOf("print_json") # {}
                      \/ EventsOf("write") # {}

\* The library's run on an empty diff, its message printed in JSON mode.
C27_Witness ==
    /\ variant = "lib"
    /\ EmptyDiffRetrieved
    /\ \E i \in EventsOf("claude") : trace[i].ok /\ trace[i].arg = Concat(config.prompt, Rep("nl", 2))
    /\ EventsOf("print_json") # {}
    /\ exit.how = "ok"

=============================================================================
